---- MODULE Spec2Model ----
(***************************************************************************)
(* Model of the pushover command (main.go): one run of main, from the      *)
(* declaration of the flag variables to the exit of the process.           *)
(*                                                                         *)
(* The run is a sequence of steps (pc); the command line, the config file  *)
(* and the behaviour of the network are the inputs, drawn where the code   *)
(* reads them.  Texts are TLA+ strings; the response body is the sequence  *)
(* of the sizes of the chunks in which it arrives.                         *)
(***************************************************************************)
EXTENDS Integers, Sequences, FiniteSets, TLC

VARIABLES
    pc,           \* position of main
    osArgs,       \* the command line, [flags, words], once flag.Parse has read it
    configFile,   \* << >>, or <<file>> once the file at configPath has been read
    configPath,   \* main.go:39
    priority,     \* main.go:40
    title,        \* main.go:41
    retry,        \* main.go:42
    expire,       \* main.go:43
    timeout,      \* main.go:44 (seconds)
    printConfig,  \* main.go:45
    args,         \* flag.Args(), main.go:67
    msg,          \* main.go:71
    config,       \* main.go:26-30
    p,            \* main.go:81
    data,         \* main.go:77 (url.Values)
    req,          \* main.go:115, <<>> while there is none
    sent,         \* the requests handed to http.DefaultClient.Do, in order
    ctx,          \* main.go:112: "none", "live", or "done" once the deadline has passed
    resp,         \* main.go:118, <<>> while there is none
    stdout,       \* what was written to os.Stdout
    stderr,       \* the lines the log package wrote
    exit          \* <<>> while running, <<status>> once the process has exited

vars == << pc, osArgs, configFile, configPath, priority, title, retry, expire, timeout, printConfig,
           args, msg, config, p, data, req, ctx, sent, resp, stdout, stderr, exit >>

(***************************************************************************)
(* Program constants.                                                      *)
(***************************************************************************)
DefaultRetry == 300
DefaultExpire == 3600
DefaultTimeout == 30
ReadLimit == 1024
StatusOK == 200
ExitOK == 0
ExitFatal == 1
ExitUsage == 2

DefaultConfigPath == "/etc/pushover.conf"
Endpoint == "https://api.pushover.net/1/messages.json"
MethodPost == "POST"

(***************************************************************************)
(* Bounds of the inputs.                                                   *)
(***************************************************************************)
MaxArgs == 2          \* positional words on the command line
MaxChunks == 2        \* chunks in which a response body arrives

Min(a, b) == IF a <= b THEN a ELSE b

(***************************************************************************)
(* The log package (log.SetFlags(0): no prefix).  A line of the log is a   *)
(* record: the call that wrote it, its text, and for the status line the   *)
(* status and the number of body bytes quoted.                             *)
(***************************************************************************)
LogLine(kind, text) == [kind |-> kind, text |-> text, status |-> 0, bodyLen |-> 0]

StatusLine(status, n) ==
    [kind |-> "fatal", text |-> "got status, expected 200 ok", status |-> status, bodyLen |-> n]

\* What a call does to the process: the lines it logs and, when it ends the
\* process, the exit status (<< >> when it returns to its caller).
NoEffect == [lines |-> << >>, exit |-> << >>]

\* Mutant of Usage: it prints and returns, as the flag package's own Usage does.
UsageReturns ==
    [lines |-> << LogLine("print", "usage: pushover [flags] message..."),
                  LogLine("defaults", "") >>,
     exit  |-> << >>]

\* flag.Usage as set in main: the usage line and the defaults, then os.Exit(2).
Usage ==
    [lines |-> << LogLine("print", "usage: pushover [flags] message..."),
                  LogLine("defaults", "") >>,
     exit  |-> << ExitUsage >>]

\* log.Fatalf: one line, then os.Exit(1).
Fatalf(text) == [lines |-> << LogLine("fatal", text) >>, exit |-> << ExitFatal >>]

\* Mutant of xcheckf: the error is logged and the run goes on.
xcheckfLogOnly(err, what) ==
    IF err # "" THEN [lines |-> << LogLine("print", what \o ": " \o err) >>, exit |-> << >>]
    ELSE NoEffect

\* xcheckf: fatal when err is an error ("" is nil).
xcheckf(err, what) == IF err # "" THEN Fatalf(what \o ": " \o err) ELSE NoEffect

(***************************************************************************)
(* The flag package.  The flag variables are handled as one record while   *)
(* the command line is parsed; a flag of the command line is a record      *)
(* [name, value].                                                          *)
(***************************************************************************)
\* The variable each registered flag writes to: the first argument of the
\* BoolVar/StringVar/IntVar/DurationVar calls of main.
FlagTarget(name) ==
    CASE name = "printconfig" -> "printConfig"
      [] name = "configpath"  -> "configPath"
      [] name = "priority"    -> "priority"
      [] name = "title"       -> "title"
      [] name = "retry"       -> "retry"
      [] name = "expire"      -> "retry"
      [] name = "timeout"     -> "timeout"

FlagNames == { "printconfig", "configpath", "priority", "title", "retry", "expire", "timeout" }

\* Registering a flag stores its default value in the variable it is bound to.
Register(F, name, default) == [F EXCEPT ![FlagTarget(name)] = default]

\* main.go:48-54, in order; F holds the values of the var declarations.
RegisterAll(F) ==
    LET f1 == Register(F,  "printconfig", FALSE)
        f2 == Register(f1, "configpath",  f1.configPath)
        f3 == Register(f2, "priority",    f2.priority)
        f4 == Register(f3, "title",       "")
        f5 == Register(f4, "retry",       f4.retry)
        f6 == Register(f5, "expire",      f5.expire)
        f7 == Register(f6, "timeout",     f6.timeout)
    IN  f7

\* flag.Parse: the flags are applied left to right; the first flag that is not
\* registered (-h and -help included) stops the parse with an error, after the
\* flags before it were applied.
RECURSIVE ParseFlags(_, _)
ParseFlags(F, flags) ==
    IF flags = << >> THEN [vars |-> F, err |-> ""]
    ELSE LET f == Head(flags)
         IN  IF f.name \in FlagNames
             THEN ParseFlags([F EXCEPT ![FlagTarget(f.name)] = f.value], Tail(flags))
             ELSE IF f.name \in { "h", "help" }
                  THEN [vars |-> F, err |-> "help"]
                  ELSE [vars |-> F, err |-> "flag provided but not defined: -" \o f.name]

(***************************************************************************)
(* strings.Join(args, " ")                                                 *)
(***************************************************************************)
RECURSIVE Join(_, _)
Join(words, sep) ==
    IF words = << >> THEN ""
    ELSE IF Len(words) = 1 THEN words[1]
    ELSE words[1] \o sep \o Join(Tail(words), sep)

(***************************************************************************)
(* The priority switch of main: the code of a priority token, "" when the  *)
(* token is not accepted (p keeps its zero value in the default case).     *)
(***************************************************************************)
\* Mutant of PriorityCode: the codes of low and lowest are exchanged.
PriorityCodeSwapped(tok) ==
    CASE tok \in { "lowest", "-2" }      -> "-1"
      [] tok \in { "low", "-1" }         -> "-2"
      [] tok \in { "", "normal", "0" }   -> "0"
      [] tok \in { "high", "1" }         -> "1"
      [] tok \in { "highest", "2" }      -> "2"
      [] OTHER                           -> ""

PriorityCode(tok) ==
    CASE tok \in { "lowest", "-2" }      -> "-2"
      [] tok \in { "low", "-1" }         -> "-1"
      [] tok \in { "", "normal", "0" }   -> "0"
      [] tok \in { "high", "1" }         -> "1"
      [] tok \in { "highest", "2" }      -> "2"
      [] OTHER                           -> ""

(***************************************************************************)
(* fmt.Sprintf("%d", n)                                                    *)
(***************************************************************************)
DecDigits == "0123456789"

RECURSIVE Utoa(_)
Utoa(n) ==
    LET d == SubSeq(DecDigits, (n % 10) + 1, (n % 10) + 1)
    IN  IF n < 10 THEN d ELSE Utoa(n \div 10) \o d

Itoa(n) == IF n < 0 THEN "-" \o Utoa(-n) ELSE Utoa(n)

(***************************************************************************)
(* net/url: QueryEscape and Values.Encode.                                 *)
(***************************************************************************)
Unreserved ==
    { "a","b","c","d","e","f","g","h","i","j","k","l","m","n","o","p","q","r","s",
      "t","u","v","w","x","y","z","A","B","C","D","E","F","G","H","I","J","K","L",
      "M","N","O","P","Q","R","S","T","U","V","W","X","Y","Z","0","1","2","3","4",
      "5","6","7","8","9","-","_",".","~" }

\* The byte of the other characters the inputs use.
ByteOf(c) ==
    CASE c = " " -> 32
      [] c = "%" -> 37
      [] c = "&" -> 38
      [] c = "+" -> 43
      [] c = "/" -> 47
      [] c = ":" -> 58
      [] c = "=" -> 61

UpperHex == "0123456789ABCDEF"

HexByte(b) ==
    SubSeq(UpperHex, (b \div 16) + 1, (b \div 16) + 1) \o SubSeq(UpperHex, (b % 16) + 1, (b % 16) + 1)

EscapeChar(c) ==
    IF c \in Unreserved THEN c
    ELSE IF c = " " THEN "+"
    ELSE "%" \o HexByte(ByteOf(c))

RECURSIVE QueryEscape(_)
QueryEscape(s) ==
    IF s = "" THEN ""
    ELSE EscapeChar(SubSeq(s, 1, 1)) \o QueryEscape(Tail(s))

\* url.Values as a function from the keys set to their value.
EmptyValues == [k \in {} |-> ""]

\* Values.Set
Set(v, key, value) == [k \in DOMAIN v \cup { key } |-> IF k = key THEN value ELSE v[k]]

\* The form keys in the order sort.Strings gives them.
KeyOrder == << "expire", "message", "priority", "retry", "title", "token", "user" >>

SortedKeys(v) == SelectSeq(KeyOrder, LAMBDA k : k \in DOMAIN v)

RECURSIVE EncodeKeys(_, _, _)
EncodeKeys(v, keys, buf) ==
    IF keys = << >> THEN buf
    ELSE LET k == Head(keys)
             amp == IF Len(buf) > 0 THEN "&" ELSE ""
         IN  EncodeKeys(v, Tail(keys), buf \o amp \o QueryEscape(k) \o "=" \o QueryEscape(v[k]))

\* Values.Encode
Encode(v) == EncodeKeys(v, SortedKeys(v), "")

(***************************************************************************)
(* sconf.ParseFile into the config struct: AppToken and DestKey are        *)
(* required, Title is tagged optional.  A file is [state, fields], fields  *)
(* a function from the keys the file holds to their values.                *)
(***************************************************************************)
ZeroConfig == [AppToken |-> "", DestKey |-> "", Title |-> ""]

RequiredFields == { "AppToken", "DestKey" }

ParseFile(file) ==
    IF file.state = "missing" THEN [config |-> ZeroConfig, err |-> "open: no such file or directory"]
    ELSE IF file.state = "malformed" THEN [config |-> ZeroConfig, err |-> "bad syntax"]
    ELSE IF \E k \in RequiredFields : k \notin DOMAIN file.fields
         THEN [config |-> ZeroConfig, err |-> "missing required field"]
    ELSE [config |-> [k \in DOMAIN ZeroConfig |->
                         IF k \in DOMAIN file.fields THEN file.fields[k] ELSE ""],
          err |-> ""]

(***************************************************************************)
(* The form fields of main.go:97-110.                                      *)
(***************************************************************************)
WithPriority(d, code) == IF code # "0" THEN Set(d, "priority", code) ELSE d

\* Mutant of WithRetryExpire: the fields are added for every priority but normal.
WithRetryExpireNonNormal(d, code, r, e) ==
    IF code # "0" THEN Set(Set(d, "retry", Itoa(r)), "expire", Itoa(e)) ELSE d

WithRetryExpire(d, code, r, e) ==
    IF code = "2" THEN Set(Set(d, "retry", Itoa(r)), "expire", Itoa(e)) ELSE d

\* Mutant of ResolveTitle: the config title wins over the flag.
ResolveTitleConfigFirst(flagTitle, configTitle) ==
    IF configTitle # "" THEN configTitle ELSE flagTitle

ResolveTitle(flagTitle, configTitle) == IF flagTitle = "" THEN configTitle ELSE flagTitle

WithTitle(d, t) == IF t # "" THEN Set(d, "title", t) ELSE d

(***************************************************************************)
(* http.NewRequestWithContext: the request as the code builds it; no       *)
(* header is set on it.                                                    *)
(***************************************************************************)
NewRequest(method, url, body) ==
    [method |-> method, url |-> url, body |-> body, header |-> EmptyValues]

(***************************************************************************)
(* io.ReadAll(io.LimitReader(resp.Body, limit)) on a body that arrives in  *)
(* chunks of the given sizes and then ends with end ("EOF", or "err" when  *)
(* the connection fails): the number of bytes read and whether ReadAll     *)
(* returns an error.                                                       *)
(***************************************************************************)
RECURSIVE ReadAllLimited(_, _, _, _)
ReadAllLimited(chunks, end, N, acc) ==
    IF N <= 0 THEN [n |-> acc, err |-> FALSE]
    ELSE IF chunks = << >> THEN [n |-> acc, err |-> (end = "err")]
    ELSE LET n == Min(Head(chunks), N)
         IN  ReadAllLimited(Tail(chunks), end, N - n, acc + n)

ReadBody(body) == ReadAllLimited(body.chunks, body.end, ReadLimit, 0)

(***************************************************************************)
(* The inputs of a run.                                                    *)
(***************************************************************************)
PriorityTokens ==
    { "lowest", "low", "normal", "high", "highest", "-2", "-1", "0", "1", "2", "",
      "HIGH", "3", "urgent" }

Flag(name, value) == [name |-> name, value |-> value]

Opt(name, values) == { << >> } \cup { << Flag(name, v) >> : v \in values }

\* -retry and -expire: each given or not, in both orders.
IntFlags ==
    { r \o e : r \in Opt("retry", { 60 }), e \in Opt("expire", { 7200 }) }
    \cup { << Flag("expire", 7200), Flag("retry", 60) >> }

\* The flags of a command line, left to right: the command lines that parse,
\* and some that end in -h or in a flag that is not defined.
FlagLists ==
    { a \o b \o c \o d \o e :
        a \in Opt("printconfig", { TRUE }),
        b \in Opt("priority", PriorityTokens),
        c \in Opt("title", { "X" }),
        d \in IntFlags,
        e \in Opt("timeout", { 0 }) }
    \cup
    { a \o b \o f :
        a \in Opt("printconfig", { TRUE }),
        b \in Opt("priority", { "high" }),
        f \in { << Flag("h", TRUE) >>, << Flag("bogus", TRUE) >> } }

\* The positional words: the first n words of a message, n up to MaxArgs.
MessageWords == << "Bad", "a&b=c d", "stuff" >>

Word(i) == MessageWords[((i - 1) % Len(MessageWords)) + 1]

ArgLists == { [i \in 1..n |-> Word(i)] : n \in 0..MaxArgs }

ConfigFields ==
    { [k \in keys |-> CASE k = "AppToken" -> "tok" [] k = "DestKey" -> "u/1" [] k = "Title" -> "Y+Z"] :
        keys \in { { "AppToken", "DestKey" }, { "AppToken", "DestKey", "Title" },
                   { "DestKey", "Title" }, { "AppToken" } } }

ConfigFiles ==
    { [state |-> "missing", fields |-> EmptyValues], [state |-> "malformed", fields |-> EmptyValues] }
    \cup { [state |-> "ok", fields |-> f] : f \in ConfigFields }

Statuses == { 200, 204, 500 }

RECURSIVE SeqsUpTo(_, _)
SeqsUpTo(S, n) ==
    IF n = 0 THEN { <<>> }
    ELSE LET shorter == SeqsUpTo(S, n - 1)
         IN  shorter \cup { Append(s, x) : s \in { t \in shorter : Len(t) = n - 1 }, x \in S }

ChunkSizes == { 600, 1024 }

Bodies == [chunks : SeqsUpTo(ChunkSizes, MaxChunks), end : { "EOF", "err" }]

(***************************************************************************)
(* The run of main.                                                        *)
(***************************************************************************)
Init ==
    /\ pc = "flags"
    /\ osArgs = [flags |-> << >>, words |-> << >>]
    /\ configFile = << >>
    /\ configPath = DefaultConfigPath
    /\ priority = ""
    /\ title = ""
    /\ retry = DefaultRetry
    /\ expire = DefaultExpire
    /\ timeout = DefaultTimeout
    /\ printConfig = FALSE
    /\ args = << >>
    /\ msg = ""
    /\ config = ZeroConfig
    /\ p = ""
    /\ data = EmptyValues
    /\ req = << >>
    /\ ctx = "none"
    /\ sent = << >>
    /\ resp = << >>
    /\ stdout = << >>
    /\ stderr = << >>
    /\ exit = << >>

FlagRecord ==
    [printConfig |-> printConfig, configPath |-> configPath, priority |-> priority,
     title |-> title, retry |-> retry, expire |-> expire, timeout |-> timeout]

SetFlagVars(F) ==
    /\ printConfig' = F.printConfig
    /\ configPath' = F.configPath
    /\ priority' = F.priority
    /\ title' = F.title
    /\ retry' = F.retry
    /\ expire' = F.expire
    /\ timeout' = F.timeout

flagVars == << printConfig, configPath, priority, title, retry, expire, timeout >>

\* The call e is made, then the run goes on at next unless e ended the process.
Continue(e, next) ==
    /\ stderr' = stderr \o e.lines
    /\ exit' = e.exit
    /\ pc' = IF e.exit # << >> THEN "exited" ELSE next

\* main.go:47-59
RegisterFlags ==
    /\ pc = "flags"
    /\ SetFlagVars(RegisterAll(FlagRecord))
    /\ pc' = "parse"
    /\ UNCHANGED << osArgs, configFile, args, msg, config, p, data, req, ctx, sent, resp, stdout, stderr, exit >>

\* main.go:60: a parse error is printed and flag.Usage is called.
Parse ==
    /\ pc = "parse"
    /\ \E flags \in FlagLists, words \in ArgLists :
          LET r == ParseFlags(FlagRecord, flags)
              failed == r.err # ""
              e == IF ~failed THEN NoEffect
                   ELSE IF r.err = "help" THEN Usage
                   ELSE [lines |-> << LogLine("print", r.err) >> \o Usage.lines,
                         exit |-> Usage.exit]
          IN  /\ osArgs' = [flags |-> flags, words |-> words]
              /\ SetFlagVars(r.vars)
              /\ args' = IF failed THEN << >> ELSE words
              /\ Continue(e, "printconfig")
    /\ UNCHANGED << configFile, msg, config, p, data, req, ctx, sent, resp, stdout >>

\* Mutant of PrintConfig: -printconfig is not looked at before the arguments.
PrintConfigSkipped ==
    /\ pc = "printconfig"
    /\ pc' = "args"
    /\ UNCHANGED << osArgs, configFile, flagVars, args, msg, config, p, data, req, ctx, sent,
                    resp, stdout, stderr, exit >>

\* main.go:62-65
PrintConfig ==
    /\ pc = "printconfig"
    /\ IF printConfig
       THEN /\ stdout' = Append(stdout, "config template")
            /\ exit' = << ExitOK >>
            /\ pc' = "exited"
       ELSE /\ pc' = "args"
            /\ UNCHANGED << osArgs, configFile, stdout, exit >>
    /\ UNCHANGED << osArgs, configFile, flagVars, args, msg, config, p, data, req, ctx, sent, resp, stderr >>

\* main.go:67-71
CheckArgs ==
    /\ pc = "args"
    /\ LET e == IF Len(args) = 0 THEN Usage ELSE NoEffect
       IN  /\ Continue(e, "config")
           /\ msg' = IF e.exit # << >> THEN msg ELSE Join(args, " ")
    /\ UNCHANGED << osArgs, configFile, flagVars, args, config, p, data, req, ctx, sent, resp, stdout >>

\* main.go:73-74
LoadConfig ==
    /\ pc = "config"
    /\ \E file \in ConfigFiles :
          LET r == ParseFile(file)
          IN  /\ configFile' = << file >>
              /\ config' = r.config
              /\ Continue(xcheckf(r.err, "parsing config file"), "build")
    /\ UNCHANGED << osArgs, flagVars, args, msg, p, data, req, ctx, sent, resp, stdout >>

\* main.go:76-110
BuildData ==
    /\ pc = "build"
    /\ LET code == PriorityCode(priority)
           e == IF code = ""
                THEN [lines |-> << LogLine("print", "invalid priority value " \o priority) >>
                                   \o Usage.lines,
                      exit |-> Usage.exit]
                ELSE NoEffect
           t == ResolveTitle(title, config.Title)
           d == Set(Set(Set(EmptyValues, "token", config.AppToken), "user", config.DestKey),
                    "message", msg)
       IN  /\ Continue(e, "request")
           /\ p' = code
           /\ IF e.exit # << >>
              THEN /\ data' = d
                   /\ title' = title
              ELSE /\ data' = WithTitle(WithRetryExpire(WithPriority(d, code), code, retry, expire), t)
                   /\ title' = t
    /\ UNCHANGED << osArgs, configFile, printConfig, configPath, priority, retry, expire, timeout,
                    args, msg, config, req, ctx, sent, resp, stdout >>

\* Mutant of WithTimeout: the request is made with a context without deadline.
WithoutTimeout(t) == "none"

\* context.WithTimeout: a timeout that is not positive gives a context that is
\* already done.
WithTimeout(t) == IF t <= 0 THEN "done" ELSE "live"

\* main.go:112-116
MakeRequest ==
    /\ pc = "request"
    /\ ctx' = WithTimeout(timeout)
    /\ req' = NewRequest(MethodPost, Endpoint, Encode(data))
    /\ Continue(xcheckf("", "making request"), "do")
    /\ UNCHANGED << osArgs, configFile, flagVars, args, msg, config, p, data, sent, resp, stdout >>

\* main.go:118: the request is handed to the client, which blocks.
Do ==
    /\ pc = "do"
    /\ sent' = Append(sent, req)
    /\ pc' = "waiting"
    /\ UNCHANGED << osArgs, configFile, flagVars, args, msg, config, p, data, req, ctx, resp, stdout, stderr, exit >>

\* The response's status line and headers arrive: Do returns the response.
Response ==
    /\ pc = "waiting"
    /\ ctx # "done"
    /\ \E st \in Statuses : resp' = << [status |-> st] >>
    /\ Continue(xcheckf("", "api request"), "status")
    /\ UNCHANGED << osArgs, configFile, flagVars, args, msg, config, p, data, req, ctx, sent, stdout >>

TransportErrors == { "dial tcp: connection refused", "tls: handshake failure" }

\* The transport fails: Do returns the error (main.go:118-119).
TransportError ==
    /\ pc = "waiting"
    /\ ctx # "done"
    /\ \E err \in TransportErrors : Continue(xcheckf(err, "api request"), "status")
    /\ UNCHANGED << osArgs, configFile, flagVars, args, msg, config, p, data, req, ctx, sent, resp, stdout >>

\* The deadline of ctx passes while Do blocks: Do returns the context's error.
Timeout ==
    /\ pc = "waiting"
    /\ ctx # "none"
    /\ ctx' = "done"
    /\ Continue(xcheckf("context deadline exceeded", "api request"), "status")
    /\ UNCHANGED << osArgs, configFile, flagVars, args, msg, config, p, data, req, sent, resp, stdout >>

\* Mutant of StatusIsOK: every 2xx status passes.
StatusIs2xx(r) == r.status >= 200 /\ r.status < 300

StatusIsOK(r) == r.status = StatusOK

\* main.go:121-128: main returns on 200; otherwise the body is read and the
\* status is fatal.
CheckStatus ==
    /\ pc = "status"
    /\ IF StatusIsOK(resp[1])
       THEN /\ exit' = << ExitOK >>
            /\ pc' = "exited"
            /\ stderr' = stderr
       ELSE \E body \in Bodies :
               LET r == ReadBody(body)
                   warn == IF r.err
                           THEN << LogLine("print", "warning: reading error response body") >>
                           ELSE << >>
                   f == Fatalf("")
               IN  Continue([lines |-> warn \o << StatusLine(resp[1].status, r.n) >>,
                             exit |-> f.exit], "exited")
    /\ UNCHANGED << osArgs, configFile, flagVars, args, msg, config, p, data, req, ctx, sent, resp, stdout >>

\* The steps of the program itself.
Step ==
    \/ RegisterFlags
    \/ Parse
    \/ PrintConfig
    \/ CheckArgs
    \/ LoadConfig
    \/ BuildData
    \/ MakeRequest
    \/ Do
    \/ CheckStatus

Next ==
    \/ Step
    \/ Response
    \/ TransportError
    \/ Timeout

Spec == Init /\ [][Next]_vars

\* The program runs while it can, and the timer of ctx fires; the network owes
\* the run nothing.
FairSpec == Spec /\ WF_vars(Step) /\ WF_vars(Timeout)

(***************************************************************************)
(* Reading a run back: the command line as given, the form a request body  *)
(* decodes to, the documented priority table.                              *)
(***************************************************************************)
RECURSIVE SplitAcc(_, _, _, _)
SplitAcc(s, c, cur, acc) ==
    IF s = "" THEN Append(acc, cur)
    ELSE LET h == SubSeq(s, 1, 1)
         IN  IF h = c THEN SplitAcc(Tail(s), c, "", Append(acc, cur))
             ELSE SplitAcc(Tail(s), c, cur \o h, acc)

Split(s, c) == SplitAcc(s, c, "", << >>)

PercentChar(h) ==
    CASE h = "20" -> " "
      [] h = "25" -> "%"
      [] h = "26" -> "&"
      [] h = "2B" -> "+"
      [] h = "2F" -> "/"
      [] h = "3A" -> ":"
      [] h = "3D" -> "="
      [] OTHER    -> "?"

RECURSIVE Unescape(_)
Unescape(s) ==
    IF s = "" THEN ""
    ELSE LET h == SubSeq(s, 1, 1)
         IN  IF h = "+" THEN " " \o Unescape(Tail(s))
             ELSE IF h = "%" THEN PercentChar(SubSeq(s, 2, 3)) \o Unescape(SubSeq(s, 4, Len(s)))
             ELSE h \o Unescape(Tail(s))

\* The fields a form-encoded body carries, as a receiver decodes them.
FormOf(body) ==
    LET pairs == IF body = "" THEN << >> ELSE Split(body, "&")
        kv == [i \in 1..Len(pairs) |->
                  LET parts == Split(pairs[i], "=")
                  IN  << Unescape(parts[1]), Unescape(parts[2]) >>]
    IN  [k \in { kv[i][1] : i \in 1..Len(pairs) } |->
            kv[CHOOSE i \in 1..Len(pairs) : kv[i][1] = k][2]]

Has(f, k) == k \in DOMAIN f

\* The value the command line gives flag name (the last one counts), or default.
Given(name, default) ==
    LET at == { i \in 1..Len(osArgs.flags) : osArgs.flags[i].name = name }
    IN  IF at = {} THEN default
        ELSE osArgs.flags[CHOOSE i \in at : \A j \in at : j <= i].value

IsGiven(name) == \E i \in 1..Len(osArgs.flags) : osArgs.flags[i].name = name

AcceptedTokens ==
    { "lowest", "low", "normal", "high", "highest", "-2", "-1", "0", "1", "2", "" }

DocumentedCode(tok) ==
    CASE tok \in { "lowest", "-2" }    -> "-2"
      [] tok \in { "low", "-1" }       -> "-1"
      [] tok \in { "", "normal", "0" } -> "0"
      [] tok \in { "high", "1" }       -> "1"
      [] tok \in { "highest", "2" }    -> "2"

Requested == sent # << >>

\* C1: in every run that issues the POST, the body holds the retry field and
\* the expire field if and only if the priority given resolves to code 2
\* ("highest" or "2"); for every other accepted priority it holds neither.
C1_RetryExpireIffHighest ==
    \A i \in 1..Len(sent) :
        LET f == FormOf(sent[i].body)
            highest == Given("priority", "") \in { "highest", "2" }
        IN  /\ Given("priority", "") \in AcceptedTokens
            /\ Has(f, "retry") <=> highest
            /\ Has(f, "expire") <=> highest

C1_Witness ==
    /\ Requested
    /\ Given("priority", "") = "highest"
    /\ Has(FormOf(sent[1].body), "retry")
    /\ Has(FormOf(sent[1].body), "expire")

\* C2: for priority code 2 the retry field is the integer given with -retry
\* (300 when it is not given) and the expire field the integer given with
\* -expire (3600 when it is not given).
C2_RetryExpireValues ==
    \A i \in 1..Len(sent) :
        LET f == FormOf(sent[i].body)
        IN  Given("priority", "") \in { "highest", "2" } =>
                /\ Has(f, "retry") /\ f["retry"] = Itoa(Given("retry", 300))
                /\ Has(f, "expire") /\ f["expire"] = Itoa(Given("expire", 3600))

\* C3: every accepted priority token resolves to its documented code, and the
\* priority field is in the request if and only if that code is not zero,
\* with the code as its value.
C3_PriorityCodeAndField ==
    \A i \in 1..Len(sent) :
        LET f == FormOf(sent[i].body)
            tok == Given("priority", "")
        IN  /\ tok \in AcceptedTokens
            /\ p = DocumentedCode(tok)
            /\ Has(f, "priority") <=> DocumentedCode(tok) # "0"
            /\ Has(f, "priority") => f["priority"] = DocumentedCode(tok)

C3_Witness ==
    /\ Requested
    /\ Given("priority", "") = "low"
    /\ Has(FormOf(sent[1].body), "priority")
    /\ FormOf(sent[1].body)["priority"] = "-1"

\* C8: the title field is the -title flag when that is not empty, whatever
\* the config title; else the config title when that is not empty; else the
\* request has no title field.
C8_TitleResolution ==
    \A i \in 1..Len(sent) :
        LET f == FormOf(sent[i].body)
            flagTitle == Given("title", "")
            configTitle == IF Has(configFile[1].fields, "Title")
                           THEN configFile[1].fields["Title"] ELSE ""
        IN  /\ flagTitle # "" => Has(f, "title") /\ f["title"] = flagTitle
            /\ flagTitle = "" /\ configTitle # "" => Has(f, "title") /\ f["title"] = configTitle
            /\ flagTitle = "" /\ configTitle = "" => ~Has(f, "title")

C8_Witness ==
    /\ Requested
    /\ IsGiven("title")
    /\ Has(configFile[1].fields, "Title")
    /\ FormOf(sent[1].body)["title"] = "X"

Exited(status) == pc = "exited" /\ exit = << status >>

LastLine == stderr[Len(stderr)]

UsagePrinted ==
    /\ Len(stderr) >= 2
    /\ stderr[Len(stderr) - 1].text = "usage: pushover [flags] message..."
    /\ stderr[Len(stderr)].kind = "defaults"

\* The command line parses: every flag on it is defined.
FlagsParse == \A i \in 1..Len(osArgs.flags) : osArgs.flags[i].name \in FlagNames

FileLoads(file) ==
    /\ file.state = "ok"
    /\ Has(file.fields, "AppToken")
    /\ Has(file.fields, "DestKey")

\* The run went past the priority switch with a message and a loaded config.
PastSwitch ==
    /\ pc \notin { "flags", "parse", "printconfig", "args", "config", "build" }
    /\ FlagsParse
    /\ ~IsGiven("printconfig")
    /\ osArgs.words # << >>
    /\ configFile # << >>
    /\ FileLoads(configFile[1])

\* C4: with a message and a loaded config, a -priority value that is not an
\* accepted token (exact match) is logged, usage is printed, the process exits
\* with status 2, and no request is issued.
C4_InvalidPriorityExits ==
    PastSwitch /\ Given("priority", "") \notin AcceptedTokens =>
        /\ Exited(2)
        /\ UsagePrinted
        /\ Len(stderr) = 3
        /\ stderr[1].text = "invalid priority value " \o Given("priority", "")
        /\ ~Requested

C4_Witness ==
    /\ PastSwitch
    /\ Given("priority", "") = "HIGH"
    /\ Exited(2)

\* C5 as stated: every run with zero positional arguments prints usage and
\* exits 2; a run whose config file fails to load exits 1; neither issues a
\* request, and a request is issued only after a message was given and the
\* config was loaded.
C5_Original ==
    /\ pc = "exited" /\ osArgs.words = << >> => Exited(2) /\ UsagePrinted /\ ~Requested
    /\ configFile # << >> /\ ~FileLoads(configFile[1]) /\ pc # "config" =>
          Exited(1) /\ LastLine.kind = "fatal" /\ ~Requested
    /\ Requested => /\ osArgs.words # << >> /\ msg # ""
                    /\ configFile # << >> /\ FileLoads(configFile[1])

\* C5, amended: the zero-argument case holds of the runs in which -printconfig
\* is not set.
C5_NoArgsNoConfigNoRequest ==
    /\ pc = "exited" /\ osArgs.words = << >> /\ ~printConfig =>
          Exited(2) /\ UsagePrinted /\ ~Requested
    /\ configFile # << >> /\ ~FileLoads(configFile[1]) /\ pc # "config" =>
          Exited(1) /\ LastLine.kind = "fatal" /\ ~Requested
    /\ Requested => /\ osArgs.words # << >> /\ msg # ""
                    /\ configFile # << >> /\ FileLoads(configFile[1])

C5_Witness ==
    /\ FlagsParse
    /\ osArgs.words = << >>
    /\ ~printConfig
    /\ Exited(2)
    /\ UsagePrinted

\* C6: in a run that issued the request, the process exits 0 with no output
\* if and only if a response with status 200 was received; any other status
\* ends the run with status 1 and a fatal line with the status and at most
\* 1024 bytes of the body, a failed read of the body adding only a warning;
\* a transport error ends the run with status 1 and a fatal line.
C6_Outcome ==
    Requested /\ pc = "exited" =>
        /\ (Exited(0) /\ stderr = << >> /\ stdout = << >>)
              <=> (resp # << >> /\ resp[1].status = 200)
        /\ resp # << >> /\ resp[1].status # 200 =>
              /\ Exited(1)
              /\ LastLine.kind = "fatal"
              /\ LastLine.status = resp[1].status
              /\ LastLine.bodyLen <= 1024
              /\ \A i \in 1..(Len(stderr) - 1) :
                    stderr[i].text = "warning: reading error response body"
        /\ resp = << >> =>
              /\ Exited(1)
              /\ Len(stderr) = 1
              /\ LastLine.kind = "fatal"

C6_Witness ==
    /\ Requested
    /\ resp # << >>
    /\ resp[1].status = 500
    /\ Exited(1)
    /\ Len(stderr) = 2
    /\ stderr[1].text = "warning: reading error response body"
    /\ LastLine.bodyLen = 600

\* C7: every request is a POST to https://api.pushover.net/1/messages.json,
\* its body the URL-encoded form of the fields, sent with content type
\* application/x-www-form-urlencoded.
C7_PostFormEncoded ==
    \A i \in 1..Len(sent) :
        /\ sent[i].method = "POST"
        /\ sent[i].url = "https://api.pushover.net/1/messages.json"
        /\ FormOf(sent[i].body) = data
        /\ Has(sent[i].header, "Content-Type")
        /\ sent[i].header["Content-Type"] = "application/x-www-form-urlencoded"

\* C9 as stated: when -printconfig is set the run writes the template and
\* exits 0 without loading the config file or issuing a request, whatever the
\* other inputs.
C9_Original ==
    pc = "exited" /\ printConfig =>
        /\ Exited(0)
        /\ stdout = << "config template" >>
        /\ configFile = << >>
        /\ ~Requested

\* C9, amended: it holds of the runs whose command line parses.
C9_PrintConfigOnly ==
    pc = "exited" /\ printConfig /\ FlagsParse =>
        /\ Exited(0)
        /\ stdout = << "config template" >>
        /\ stderr = << >>
        /\ configFile = << >>
        /\ ~Requested

C9_Witness ==
    /\ printConfig
    /\ FlagsParse
    /\ osArgs.words = << >>
    /\ Given("priority", "") = "urgent"
    /\ Exited(0)

\* C10: every run ends with an exit status; at most one request is issued in
\* a run (none is retried); and when the timeout passes before a response is
\* received the call fails with the timeout error and the process exits
\* non-zero.
C10_Terminates ==
    /\ <>(pc = "exited" /\ exit # << >>)
    /\ [](Len(sent) <= 1)
    /\ [](ctx = "done" /\ pc = "exited" =>
             /\ resp = << >>
             /\ exit # << >> /\ exit[1] # 0
             /\ LastLine.kind = "fatal"
             /\ LastLine.text = "api request: context deadline exceeded")

C10_Witness ==
    /\ Len(sent) = 1
    /\ timeout > 0
    /\ ctx = "done"
    /\ Exited(1)

====
